---- MODULE Spec2Model ----
(***************************************************************************)
(* Model of the two command line tools of artist-bio-gen-batch:            *)
(*   batch_tool.py      the batch job orchestrator (Spec)                  *)
(*   gen_batch_jsonl.py the CSV to JSONL row normalizer (SpecConv), and    *)
(*                      its two row functions called directly (SpecRow)    *)
(*                                                                         *)
(* Every invocation of batch_tool.py is one synchronous, single-threaded   *)
(* process, so one invocation is one action. The remote batch service is   *)
(* an external collaborator: what it answers (a job record, a file id,     *)
(* bytes, or an exception) is an input of the invocation, drawn with \E.   *)
(* Text is modelled as a sequence of tokens, so that "the message          *)
(* contains X" and "the path is results_<id>.jsonl" are properties of      *)
(* what the formatting code builds. Verbose dumps of raw responses and     *)
(* the created/completed timestamp lines only print and are left out.      *)
(***************************************************************************)
EXTENDS Integers, Sequences, FiniteSets, TLC

VARIABLES
    fs,     \* working directory: result path -> content (Absent when no file)
    inv,    \* the last invocation of batch_tool.py: arguments and everything it did
    conv    \* the running conversion of gen_batch_jsonl.py

vars == <<fs, inv, conv>>

(***************************************************************************)
(* Bounds                                                                  *)
(***************************************************************************)
MaxContent == 2       \* distinct byte contents the remote can serve

(***************************************************************************)
(* Values                                                                  *)
(***************************************************************************)
None == "<None>"                 \* Python None, where a string is expected
NoStatus == "<absent>"           \* a job record without a 'status' key
NoCheck == "<no status check>"   \* no status check has returned in this invocation

Statuses ==
    {"validating", "in_progress", "finalizing", "completed",
     "failed", "expired", "cancelling", "cancelled"}

BatchIds == {"batch_1", "batch_2"}
OutputFileIds == {None, "", "file-out"}
UploadIds == {"file-in1", "file-in2"}
Absent == 0
Contents == 1..MaxContent

\* Mutant: tests "is not None" instead of truthiness.
Truthy_NotNone(s) == s # None

\* Python truthiness of an optional string: None and "" are falsy.
Truthy(s) == s # None /\ s # ""

\* f"results_{batch_id}.jsonl"
ResultsPath(batch_id) == <<"results_", batch_id, ".jsonl">>

OutArgs == {None, "", "out.jsonl"}
Paths == {ResultsPath(b) : b \in BatchIds} \cup {<<"out.jsonl">>}

\* The input paths create is tried on, and what is at each of them.
InputFiles == {"requests.jsonl", "logs", "missing.jsonl"}
PathExists(p) == p \in {"requests.jsonl", "logs"}
PathIsFile(p) == p = "requests.jsonl"

Contains(msg, tok) == \E i \in 1..Len(msg) : msg[i] = tok

Raise(e, calls, log) == [ok |-> FALSE, exc |-> e, calls |-> calls, log |-> log]
Return(v, calls, log) == [ok |-> TRUE, val |-> v, calls |-> calls, log |-> log]

Call(op, arg) == [op |-> op, arg |-> arg]
\* A log record: level, the text before the colon, and the exception text the
\* code appends to it with str(e) (None when it appends none).
Info(tag) == [level |-> "INFO", tag |-> tag, msg |-> None]
Warn(tag) == [level |-> "WARNING", tag |-> tag, msg |-> None]
Error(tag, msg) == [level |-> "ERROR", tag |-> tag, msg |-> msg]
\* An INFO record that names a value: f"UPLOAD - Success: file_id={file_id}"
InfoOf(tag, value) == [level |-> "INFO", tag |-> tag, msg |-> value]

RemoteError == "remote failure"
OpenError == "cannot open file"
ClientError == "cannot construct client"

\* batch_info.get('status', 'unknown')
GetStatus(job) == IF job.status = NoStatus THEN "unknown" ELSE job.status

(***************************************************************************)
(* Remote wrappers: each logs, makes its one client call and returns the   *)
(* value or re-raises the exception.                                       *)
(***************************************************************************)
upload_file(file_path, openFail, fail, file_id) ==
    IF openFail
    THEN Raise(OpenError, <<>>,
               <<Info("UPLOAD - Starting"), Error("UPLOAD - Failed", OpenError)>>)
    ELSE IF fail
    THEN Raise(RemoteError, <<Call("files.create", <<file_path>>)>>,
               <<Info("UPLOAD - Starting"), Error("UPLOAD - Failed", RemoteError)>>)
    ELSE Return(file_id, <<Call("files.create", <<file_path>>)>>,
                <<Info("UPLOAD - Starting"), InfoOf("UPLOAD - Success", file_id)>>)

create_batch(file_id, endpoint, completion_window, fail, job) ==
    IF fail
    THEN Raise(RemoteError,
               <<Call("batches.create", <<file_id, endpoint, completion_window>>)>>,
               <<Info("CREATE_BATCH - Starting"), Error("CREATE_BATCH - Failed", RemoteError)>>)
    ELSE Return(job,
                <<Call("batches.create", <<file_id, endpoint, completion_window>>)>>,
                <<Info("CREATE_BATCH - Starting"), Info("CREATE_BATCH - Success")>>)

\* Mutant: asks for the status a second time.
get_batch_status_Polls(batch_id, fail, job) ==
    LET call == Call("batches.retrieve", <<batch_id>>)
    IN IF fail
       THEN Raise(RemoteError, <<call, call>>,
                  <<Info("GET_STATUS - Retrieving"),
                    Error("GET_STATUS - Failed", RemoteError)>>)
       ELSE Return(job, <<call, call>>,
                   <<Info("GET_STATUS - Retrieving"), Info("GET_STATUS - Success")>>)

get_batch_status(batch_id, fail, job) ==
    IF fail
    THEN Raise(RemoteError, <<Call("batches.retrieve", <<batch_id>>)>>,
               <<Info("GET_STATUS - Retrieving"), Error("GET_STATUS - Failed", RemoteError)>>)
    ELSE Return(job, <<Call("batches.retrieve", <<batch_id>>)>>,
                <<Info("GET_STATUS - Retrieving"), Info("GET_STATUS - Success")>>)

\* Mutant: logs the failure and returns instead of re-raising.
cancel_batch_Swallows(batch_id, fail, job) ==
    Return(job, <<Call("batches.cancel", <<batch_id>>)>>,
           IF fail
           THEN <<Info("CANCEL_BATCH - Starting"),
                  Error("CANCEL_BATCH - Failed", RemoteError)>>
           ELSE <<Info("CANCEL_BATCH - Starting"), Info("CANCEL_BATCH - Success")>>)

cancel_batch(batch_id, fail, job) ==
    IF fail
    THEN Raise(RemoteError, <<Call("batches.cancel", <<batch_id>>)>>,
               <<Info("CANCEL_BATCH - Starting"), Error("CANCEL_BATCH - Failed", RemoteError)>>)
    ELSE Return(job, <<Call("batches.cancel", <<batch_id>>)>>,
                <<Info("CANCEL_BATCH - Starting"), Info("CANCEL_BATCH - Success")>>)

\* Mutant: a failed listing is re-raised without being logged.
list_batches_Unlogged(limit, fail, jobs) ==
    LET arg == IF limit # <<>> /\ limit[1] # 0 THEN limit ELSE <<>>
    IN IF fail
       THEN Raise(RemoteError, <<Call("batches.list", arg)>>,
                  <<Info("LIST_BATCHES - Starting")>>)
       ELSE Return(jobs, <<Call("batches.list", arg)>>,
                   <<Info("LIST_BATCHES - Starting"), Info("LIST_BATCHES - Success")>>)

\* limit is <<>> (no --limit) or <<n>>; "if limit" passes it on only when n # 0.
list_batches(limit, fail, jobs) ==
    LET arg == IF limit # <<>> /\ limit[1] # 0 THEN limit ELSE <<>>
    IN IF fail
       THEN Raise(RemoteError, <<Call("batches.list", arg)>>,
                  <<Info("LIST_BATCHES - Starting"), Error("LIST_BATCHES - Failed", RemoteError)>>)
       ELSE Return(jobs, <<Call("batches.list", arg)>>,
                   <<Info("LIST_BATCHES - Starting"), Info("LIST_BATCHES - Success")>>)

\* Mutant: the destination is opened for writing, and so emptied, before the
\* content is fetched.
download_results_OpensFirst(fsys, output_file_id, out_path, fail, openFail, content) ==
    LET start == <<Info("DOWNLOAD_RESULTS - Starting")>>
                 \o (IF fsys[out_path] # Absent
                     THEN <<Warn("DOWNLOAD_RESULTS - Overwriting existing file")>>
                     ELSE <<>>)
        call == <<Call("files.content", <<output_file_id>>)>>
        emptied == [fsys EXCEPT ![out_path] = MaxContent + 1]
    IN IF openFail
       THEN [r |-> Raise(OpenError, <<>>,
                         start \o <<Error("DOWNLOAD_RESULTS - Failed", OpenError)>>),
             fs |-> fsys, wrote |-> {}]
       ELSE IF fail
       THEN [r |-> Raise(RemoteError, call,
                         start \o <<Error("DOWNLOAD_RESULTS - Failed", RemoteError)>>),
             fs |-> emptied, wrote |-> {out_path}]
       ELSE [r |-> Return(content, call,
                          start \o <<Info("DOWNLOAD_RESULTS - Success")>>),
             fs |-> [fsys EXCEPT ![out_path] = content], wrote |-> {out_path}]

\* Mutant: a results file that already exists is kept as it is.
download_results_KeepsExisting(fsys, output_file_id, out_path, fail, openFail, content) ==
    LET start == <<Info("DOWNLOAD_RESULTS - Starting")>>
                 \o (IF fsys[out_path] # Absent
                     THEN <<Warn("DOWNLOAD_RESULTS - Overwriting existing file")>>
                     ELSE <<>>)
        call == <<Call("files.content", <<output_file_id>>)>>
    IN IF fail
       THEN [r |-> Raise(RemoteError, call,
                         start \o <<Error("DOWNLOAD_RESULTS - Failed", RemoteError)>>),
             fs |-> fsys, wrote |-> {}]
       ELSE IF openFail
       THEN [r |-> Raise(OpenError, call,
                         start \o <<Error("DOWNLOAD_RESULTS - Failed", OpenError)>>),
             fs |-> fsys, wrote |-> {}]
       ELSE [r |-> Return(content, call,
                          start \o <<Info("DOWNLOAD_RESULTS - Success")>>),
             fs |-> IF fsys[out_path] # Absent THEN fsys
                    ELSE [fsys EXCEPT ![out_path] = content],
             wrote |-> {out_path}]

\* Returns, besides the wrapper's result, the file system it leaves and the set
\* of paths it opened for writing.
download_results(fsys, output_file_id, out_path, fail, openFail, content) ==
    LET start == <<Info("DOWNLOAD_RESULTS - Starting")>>
                 \o (IF fsys[out_path] # Absent
                     THEN <<Warn("DOWNLOAD_RESULTS - Overwriting existing file")>>
                     ELSE <<>>)
        call == <<Call("files.content", <<output_file_id>>)>>
    IN IF fail
       THEN [r |-> Raise(RemoteError, call,
                         start \o <<Error("DOWNLOAD_RESULTS - Failed", RemoteError)>>),
             fs |-> fsys, wrote |-> {}]
       ELSE IF openFail
       THEN [r |-> Raise(OpenError, call,
                         start \o <<Error("DOWNLOAD_RESULTS - Failed", OpenError)>>),
             fs |-> fsys, wrote |-> {}]
       ELSE [r |-> Return(content, call,
                          start \o <<Info("DOWNLOAD_RESULTS - Success")>>),
             fs |-> [fsys EXCEPT ![out_path] = content], wrote |-> {out_path}]

(***************************************************************************)
(* Command handlers. Each returns what the invocation did: exit code,      *)
(* remote calls in order, stderr and stdout lines, log records, the file   *)
(* system it leaves, the paths it wrote, and the status and output_file_id *)
(* its own status check returned (NoCheck when none returned).             *)
(***************************************************************************)
Out(exit, calls, stderr, stdout, log, fsys, seen, seenOfid) ==
    [exit |-> exit, calls |-> calls, stderr |-> stderr, stdout |-> stdout,
     log |-> log, fs |-> fsys, wrote |-> {}, served |-> Absent, seen |-> seen,
     seenOfid |-> seenOfid]

Wrote(o, paths) == [o EXCEPT !.wrote = paths]

\* The bytes client.files.content returned to this invocation.
Served(o, content) == [o EXCEPT !.served = content]

\* Mutant: the is_file check is missing.
InputProblem_ExistsOnly(input_path) ==
    IF ~PathExists(input_path) THEN "Input file not found" ELSE None

\* The two checks of the input path, in the code's order: what is wrong with
\* it, or None.
InputProblem(input_path) ==
    IF ~PathExists(input_path) THEN "Input file not found"
    ELSE IF ~PathIsFile(input_path) THEN "Input path is not a file"
    ELSE None

\* Mutant: the batch is created from the input path instead of the uploaded file's id.
cmd_create_PassesPath(args, env, fsys) ==
    LET input_path == args.input_file
        problem == InputProblem(input_path)
    IN IF problem # None
       THEN Out(1, <<>>, << <<"Error:", problem, input_path>> >>, <<>>,
                <<Error(problem, input_path)>>, fsys, NoCheck, None)
       ELSE LET up == upload_file(input_path, (env.failure = "open"), (env.failure = "call1"), env.file_id)
            IN IF ~up.ok
               THEN Out(1, up.calls, << <<"Error:", up.exc>> >>, <<>>,
                        up.log \o <<Error("Create command failed", up.exc)>>,
                        fsys, NoCheck, None)
               ELSE LET cb == create_batch(input_path, args.endpoint,
                                           args.completion_window, (env.failure = "call2"), env.job)
                    IN IF ~cb.ok
                       THEN Out(1, up.calls \o cb.calls, << <<"Error:", cb.exc>> >>, <<>>,
                                up.log \o cb.log \o <<Error("Create command failed", cb.exc)>>,
                                fsys, NoCheck, None)
                       ELSE Out(0, up.calls \o cb.calls, <<>>,
                                << <<"File ID:", up.val>>, <<"Batch ID:", cb.val.id>> >>,
                                up.log \o cb.log, fsys, NoCheck, None)

cmd_create(args, env, fsys) ==
    LET input_path == args.input_file
        problem == InputProblem(input_path)
    IN IF problem # None
       THEN Out(1, <<>>, << <<"Error:", problem, input_path>> >>, <<>>,
                <<Error(problem, input_path)>>, fsys, NoCheck, None)
       ELSE LET up == upload_file(input_path, (env.failure = "open"), (env.failure = "call1"), env.file_id)
            IN IF ~up.ok
               THEN Out(1, up.calls, << <<"Error:", up.exc>> >>, <<>>,
                        up.log \o <<Error("Create command failed", up.exc)>>,
                        fsys, NoCheck, None)
               ELSE LET cb == create_batch(up.val, args.endpoint,
                                           args.completion_window, (env.failure = "call2"), env.job)
                    IN IF ~cb.ok
                       THEN Out(1, up.calls \o cb.calls, << <<"Error:", cb.exc>> >>, <<>>,
                                up.log \o cb.log \o <<Error("Create command failed", cb.exc)>>,
                                fsys, NoCheck, None)
                       ELSE Out(0, up.calls \o cb.calls, <<>>,
                                << <<"File ID:", up.val>>, <<"Batch ID:", cb.val.id>> >>,
                                up.log \o cb.log, fsys, NoCheck, None)

\* Mutant: the auto-save flag is not consulted.
ShouldAutoSave_IgnoresFlag(status, auto_save) == status = "completed"

\* Mutant: every terminal status triggers the auto-save.
ShouldAutoSave_AnyTerminal(status, auto_save) ==
    status \in {"completed", "failed", "expired", "cancelled"} /\ auto_save

\* if status == 'completed' and args.auto_save:
ShouldAutoSave(status, auto_save) == status = "completed" /\ auto_save

cmd_status(args, env, fsys) ==
    LET st == get_batch_status(args.batch_id, (env.failure = "call1"), env.job)
    IN IF ~st.ok
       THEN Out(1, st.calls, << <<"Error:", st.exc>> >>, <<>>,
                st.log \o <<Error("Status command failed", st.exc)>>, fsys, NoCheck, None)
       ELSE
       LET status == GetStatus(st.val)
           output_file_id == st.val.output_file_id
           output_path == ResultsPath(args.batch_id)
           printed == << <<"Status:", status>> >>
       IN IF ShouldAutoSave(status, args.auto_save)
          THEN IF Truthy(output_file_id)
               THEN LET dl == download_results(fsys, output_file_id, output_path,
                                               (env.failure = "call2"), (env.failure = "open"), env.content)
                    IN IF dl.r.ok
                       THEN Served(Wrote(Out(0, st.calls \o dl.r.calls, <<>>,
                                             printed \o << <<"Results saved:">> \o output_path >>,
                                             st.log \o dl.r.log, dl.fs, status, output_file_id),
                                         dl.wrote),
                                   dl.r.val)
                       ELSE Out(0, st.calls \o dl.r.calls,
                                << <<"Warning:", "Failed to auto-save results:", dl.r.exc>> >>,
                                printed,
                                st.log \o dl.r.log \o <<Error("Auto-save failed", dl.r.exc)>>,
                                dl.fs, status, output_file_id)
               ELSE Out(0, st.calls,
                        << <<"Warning:", "Batch completed but no output_file_id found">> >>,
                        printed,
                        st.log \o <<Warn("Batch completed but no output_file_id found")>>,
                        fsys, status, output_file_id)
          ELSE Out(0, st.calls, <<>>, printed, st.log, fsys, status, output_file_id)

\* Mutant: only the running statuses are rejected.
RetrieveRejects_OnlyRunning(status) ==
    status \in {"validating", "in_progress", "finalizing", "cancelling"}

\* if status != 'completed':
RetrieveRejects(status) == status # "completed"

\* Path(args.out) if args.out else Path(f"results_{args.batch_id}.jsonl")
RetrievePath(out, batch_id) == IF Truthy(out) THEN <<out>> ELSE ResultsPath(batch_id)

cmd_retrieve(args, env, fsys) ==
    LET st == get_batch_status(args.batch_id, (env.failure = "call1"), env.job)
    IN IF ~st.ok
       THEN Out(1, st.calls, << <<"Error:", st.exc>> >>, <<>>,
                st.log \o <<Error("Retrieve command failed", st.exc)>>, fsys, NoCheck, None)
       ELSE
       LET status == GetStatus(st.val)
           output_file_id == st.val.output_file_id
           output_path == RetrievePath(args.out, args.batch_id)
       IN IF RetrieveRejects(status)
          THEN Out(1, st.calls,
                   << <<"Error:", "Batch", "not completed", "(status:", status, ")">> >>,
                   <<>>, st.log \o <<Error("Attempted to retrieve incomplete batch", status)>>,
                   fsys, status, output_file_id)
          ELSE IF ~Truthy(output_file_id)
          THEN Out(1, st.calls,
                   << <<"Error:", "Batch completed but no output_file_id found">> >>,
                   <<>>, st.log \o <<Error("Batch completed but no output_file_id found", None)>>,
                   fsys, status, output_file_id)
          ELSE LET dl == download_results(fsys, output_file_id, output_path,
                                          (env.failure = "call2"), (env.failure = "open"), env.content)
               IN IF dl.r.ok
                  THEN Served(Wrote(Out(0, st.calls \o dl.r.calls, <<>>,
                                        << <<"Results saved:">> \o output_path >>,
                                        st.log \o dl.r.log, dl.fs, status, output_file_id),
                                    dl.wrote),
                              dl.r.val)
                  ELSE Out(1, st.calls \o dl.r.calls, << <<"Error:", dl.r.exc>> >>, <<>>,
                           st.log \o dl.r.log \o <<Error("Retrieve command failed", dl.r.exc)>>,
                           dl.fs, status, output_file_id)

\* Mutant: the billing note is printed while the cancellation is still in progress.
CancelNote_BillingEarly(status) ==
    IF status \in {"cancelled", "cancelling"}
    THEN << <<"Note:", "Batch was successfully cancelled.",
              "you will be charged for them">> >>
    ELSE <<>>

\* The note printed after the new status.
CancelNote(status) ==
    IF status = "cancelled"
    THEN << <<"Note:", "Batch was successfully cancelled.",
              "you will be charged for them">> >>
    ELSE IF status = "cancelling"
    THEN << <<"Note:", "Batch cancellation in progress.",
              "This may take up to 10 minutes.">> >>
    ELSE <<>>

cmd_cancel(args, env, fsys) ==
    LET cn == cancel_batch(args.batch_id, (env.failure = "call1"), env.job)
    IN IF ~cn.ok
       THEN Out(1, cn.calls, << <<"Error:", cn.exc>> >>, <<>>,
                cn.log \o <<Error("Cancel command failed", cn.exc)>>, fsys, NoCheck, None)
       ELSE LET status == GetStatus(cn.val)
            IN Out(0, cn.calls, <<>>,
                   << <<"Batch cancellation initiated:", args.batch_id>>,
                      <<"Status:", status>> >> \o CancelNote(status),
                   cn.log, fsys, NoCheck, None)

\* One printed entry per job, in the order of the list.
ListLines(batches) ==
    [i \in 1..Len(batches) |->
        <<"Batch ID:", batches[i].id, "Status:", GetStatus(batches[i])>>]

cmd_list(args, env, fsys) ==
    LET ls == list_batches(args.limit, (env.failure = "call1"), env.jobs)
    IN IF ~ls.ok
       THEN Out(1, ls.calls, << <<"Error:", ls.exc>> >>, <<>>,
                ls.log \o <<Error("List command failed", ls.exc)>>, fsys, NoCheck, None)
       ELSE IF ls.val = <<>>
       THEN Out(0, ls.calls, <<>>, << <<"No batch jobs found.">> >>, ls.log,
                fsys, NoCheck, None)
       ELSE Out(0, ls.calls, <<>>, << <<"Found", "batch job(s):">> >> \o ListLines(ls.val),
                ls.log, fsys, NoCheck, None)

(***************************************************************************)
(* main: the credential check, the logger, the client, the dispatch.       *)
(* The arguments are those argparse lets through (a known subcommand with  *)
(* its required options).                                                  *)
(***************************************************************************)
NoArgs ==
    [input_file |-> None, endpoint |-> "/v1/responses", completion_window |-> "24h",
     batch_id |-> None, auto_save |-> TRUE, out |-> None, limit |-> <<>>]

NoJob == [id |-> None, status |-> NoStatus, output_file_id |-> None]

\* What the environment does to one invocation. failure names the one step that
\* raises: constructing the client, the first or the second remote call, or
\* opening a local file. A later failure is never reached once an earlier step
\* has raised, so one failing step per invocation covers every combination.
Failures == {"none", "client", "call1", "call2", "open"}

NoEnv ==
    [failure |-> "none", file_id |-> None, job |-> NoJob, jobs |-> <<>>, content |-> 1]

Dispatch(command, args, env, fsys) ==
    CASE command = "create" -> cmd_create(args, env, fsys)
      [] command = "status" -> cmd_status(args, env, fsys)
      [] command = "retrieve" -> cmd_retrieve(args, env, fsys)
      [] command = "cancel" -> cmd_cancel(args, env, fsys)
      [] command = "list" -> cmd_list(args, env, fsys)

Invocation(command, args, key, logger, client, handler, o) ==
    [cmd |-> command, args |-> args, key |-> key, logger |-> logger,
     client |-> client, handler |-> handler, calls |-> o.calls, seen |-> o.seen,
     seenOfid |-> o.seenOfid, wrote |-> o.wrote, served |-> o.served, exit |-> o.exit,
     stderr |-> o.stderr,
     stdout |-> o.stdout, log |-> o.log]

\* Mutant: an empty credential passes.
KeyMissing_NoneOnly(api_key) == api_key = None

\* if not api_key:
KeyMissing(api_key) == ~Truthy(api_key)

main(command, args, api_key, env, fsys) ==
    IF KeyMissing(api_key)
    THEN [inv |-> Invocation(command, args, api_key, FALSE, FALSE, FALSE,
                     Out(1, <<>>,
                         << <<"Error:", "OPENAI_API_KEY", "environment variable not set">> >>,
                         <<>>, <<>>, fsys, NoCheck, None)),
          fs |-> fsys]
    ELSE IF (env.failure = "client")
    THEN [inv |-> Invocation(command, args, api_key, TRUE, FALSE, FALSE,
                     Out(1, <<>>,
                         << <<"Error:", "Failed to initialize OpenAI client:", ClientError>> >>, <<>>,
                         <<Info("Starting batch_tool"),
                           Error("Failed to initialize OpenAI client", ClientError)>>,
                         fsys, NoCheck, None)),
          fs |-> fsys]
    ELSE LET o == Dispatch(command, args, env, fsys)
             logged == [o EXCEPT !.log = <<Info("Starting batch_tool"),
                                           Info("OpenAI client initialized")>>
                                         \o o.log \o <<Info("Batch tool finished")>>]
         IN [inv |-> Invocation(command, args, api_key, TRUE, TRUE, TRUE, logged),
             fs |-> o.fs]

(***************************************************************************)
(* The orchestrator's state machine: one action per subcommand. Each       *)
(* action is one whole run of main, from a shell where no batch_tool.py    *)
(* process is running; inv then holds what that run did, until the process *)
(* exits (Exit) and only the files it wrote remain.                        *)
(***************************************************************************)
ApiKeys == {None, "", "sk-key"}

ReportedStatuses == Statuses \cup {NoStatus}

JobRecords(ids) == [id : ids, status : ReportedStatuses, output_file_id : OutputFileIds]

\* Without a credential nothing of the environment is consulted.
EnvsFor(api_key, envs) == IF Truthy(api_key) THEN envs ELSE {NoEnv}

NoConv == [pc |-> "idle"]

InvInit ==
    Invocation("none", NoArgs, None, FALSE, FALSE, FALSE,
               Out(0, <<>>, <<>>, <<>>, <<>>, <<>>, NoCheck, None))

Init ==
    /\ fs = [p \in Paths |-> Absent]
    /\ inv = InvInit
    /\ conv = NoConv

Create ==
    /\ inv.cmd = "none"
    /\ \E input_file \in InputFiles, api_key \in ApiKeys :
         \E env \in EnvsFor(api_key,
                 {[NoEnv EXCEPT !.failure = f, !.file_id = file_id,
                                !.job = [id |-> id, status |-> "validating",
                                         output_file_id |-> None]] :
                    f \in Failures, file_id \in UploadIds, id \in BatchIds}) :
           LET m == main("create", [NoArgs EXCEPT !.input_file = input_file],
                         api_key, env, fs)
           IN inv' = m.inv /\ fs' = m.fs
    /\ UNCHANGED conv

Status ==
    /\ inv.cmd = "none"
    /\ \E batch_id \in BatchIds, auto_save \in BOOLEAN, api_key \in ApiKeys :
         \E env \in EnvsFor(api_key,
                 {[NoEnv EXCEPT !.failure = f, !.job = job, !.content = content] :
                    f \in Failures, job \in JobRecords({batch_id}),
                    content \in Contents}) :
           LET m == main("status",
                         [NoArgs EXCEPT !.batch_id = batch_id, !.auto_save = auto_save],
                         api_key, env, fs)
           IN inv' = m.inv /\ fs' = m.fs
    /\ UNCHANGED conv

Retrieve ==
    /\ inv.cmd = "none"
    /\ \E batch_id \in BatchIds, out \in OutArgs, api_key \in ApiKeys :
         \E env \in EnvsFor(api_key,
                 {[NoEnv EXCEPT !.failure = f, !.job = job, !.content = content] :
                    f \in Failures, job \in JobRecords({batch_id}),
                    content \in Contents}) :
           LET m == main("retrieve",
                         [NoArgs EXCEPT !.batch_id = batch_id, !.out = out],
                         api_key, env, fs)
           IN inv' = m.inv /\ fs' = m.fs
    /\ UNCHANGED conv

Cancel ==
    /\ inv.cmd = "none"
    /\ \E batch_id \in BatchIds, api_key \in ApiKeys :
         \E env \in EnvsFor(api_key,
                 {[NoEnv EXCEPT !.failure = f, !.job = job] :
                    f \in {"none", "client", "call1"},
                    job \in JobRecords({batch_id})}) :
           LET m == main("cancel", [NoArgs EXCEPT !.batch_id = batch_id],
                         api_key, env, fs)
           IN inv' = m.inv /\ fs' = m.fs
    /\ UNCHANGED conv

\* What the remote lists: no job, one job, or two jobs in its own order.
Listings ==
    {<<>>,
     <<[id |-> "batch_1", status |-> "completed", output_file_id |-> "file-out"]>>,
     <<[id |-> "batch_2", status |-> "in_progress", output_file_id |-> None],
       [id |-> "batch_1", status |-> "failed", output_file_id |-> None]>>}

ListLimits == {<<>>, <<0>>, <<1>>, <<2>>}

List ==
    /\ inv.cmd = "none"
    /\ \E limit \in ListLimits, api_key \in ApiKeys :
         \E env \in EnvsFor(api_key,
                 {[NoEnv EXCEPT !.failure = f, !.jobs = jobs] :
                    f \in {"none", "client", "call1"}, jobs \in Listings}) :
           LET m == main("list", [NoArgs EXCEPT !.limit = limit], api_key, env, fs)
           IN inv' = m.inv /\ fs' = m.fs
    /\ UNCHANGED conv

\* sys.exit(main()): the process is gone, the working directory stays.
Exit ==
    /\ inv.cmd # "none"
    /\ inv' = InvInit
    /\ UNCHANGED <<fs, conv>>

Next == Create \/ Status \/ Retrieve \/ Cancel \/ List \/ Exit

Spec == Init /\ [][Next]_vars

(***************************************************************************)
(* gen_batch_jsonl.py. A CSV field is a sequence of tokens, each either    *)
(* the whitespace token or a run of other characters, so that strip() has  *)
(* something to remove. A CSV file is the sequence of its rows as the csv  *)
(* module parses them, each a sequence of fields. An output line is the    *)
(* JSON object json.dumps serializes, one per line written.                *)
(***************************************************************************)
WS == " "

RECURSIVE LStrip(_)
LStrip(s) == IF s # <<>> /\ Head(s) = WS THEN LStrip(Tail(s)) ELSE s
RECURSIVE RStrip(_)
RStrip(s) == IF s # <<>> /\ s[Len(s)] = WS THEN RStrip(SubSeq(s, 1, Len(s) - 1)) ELSE s

\* Mutant: trims the left side only.
strip_LeftOnly(s) == LStrip(s)

\* str.strip()
strip(s) == RStrip(LStrip(s))

\* What DictReader gives for a column the row is too short to hold.
FieldNone == <<None>>

ColId == <<"artist_id">>
ColName == <<"artist_name">>
ColData == <<"artist_data">>
expected_columns == {ColId, ColName, ColData}

\* Mutant: the version key is always set, to null when none was supplied.
build_task_row_AlwaysVersion(artist_id, artist_name, artist_data, prompt_id, prompt_version) ==
    [custom_id |-> artist_id, method |-> "POST", url |-> "/v1/responses",
     body |-> [prompt |-> [id |-> prompt_id,
                           variables |-> [artist_name |-> artist_name,
                                          artist_data |-> artist_data],
                           version |-> prompt_version]]]

build_task_row(artist_id, artist_name, artist_data, prompt_id, prompt_version) ==
    LET variables == [artist_name |-> artist_name, artist_data |-> artist_data]
        prompt == IF Truthy(prompt_version)
                  THEN [id |-> prompt_id, variables |-> variables,
                        version |-> prompt_version]
                  ELSE [id |-> prompt_id, variables |-> variables]
    IN [custom_id |-> artist_id, method |-> "POST", url |-> "/v1/responses",
        body |-> [prompt |-> prompt]]

\* Mutant: only artist_id is required.
validate_row_IdOnly(artist_id, artist_name, artist_data) ==
    IF artist_id = <<>> \/ strip(artist_id) = <<>> THEN FALSE ELSE TRUE

validate_row(artist_id, artist_name, artist_data) ==
    IF artist_id = <<>> \/ strip(artist_id) = <<>> THEN FALSE
    ELSE IF artist_name = <<>> \/ strip(artist_name) = <<>> THEN FALSE
    ELSE TRUE

\* Mutant: the columns are taken in the fixed order, whatever the header says.
DictGet_ByPosition(fieldnames, row, col) ==
    LET i == CHOOSE k \in 1..3 : <<ColId, ColName, ColData>>[k] = col
    IN IF i <= Len(row) THEN row[i] ELSE FieldNone

\* row['artist_id'] of a DictReader row: the field at the column's position in
\* the header, None when the row is shorter.
DictGet(fieldnames, row, col) ==
    LET i == CHOOSE k \in 1..Len(fieldnames) : fieldnames[k] = col
    IN IF i <= Len(row) THEN row[i] ELSE FieldNone

\* Mutant: a positional row of two columns is taken with empty artist_data.
Extract_PadsShort(has_header, fieldnames, row) ==
    IF has_header
    THEN LET id == DictGet(fieldnames, row, ColId)
             name == DictGet(fieldnames, row, ColName)
             data == DictGet(fieldnames, row, ColData)
         IN IF FieldNone \in {id, name, data}
            THEN [ok |-> FALSE, text |-> <<"'NoneType' object has no attribute 'strip'">>]
            ELSE [ok |-> TRUE, artist_id |-> strip(id), artist_name |-> strip(name),
                  artist_data |-> strip(data)]
    ELSE IF Len(row) < 2
         THEN [ok |-> FALSE, text |-> <<"Expected 3 columns, got fewer">>]
         ELSE [ok |-> TRUE, artist_id |-> strip(row[1]), artist_name |-> strip(row[2]),
               artist_data |-> IF Len(row) < 3 THEN <<>> ELSE strip(row[3])]

\* The three fields of a row before trimming, or the reason they cannot be had.
Extract(has_header, fieldnames, row) ==
    IF has_header
    THEN LET id == DictGet(fieldnames, row, ColId)
             name == DictGet(fieldnames, row, ColName)
             data == DictGet(fieldnames, row, ColData)
         IN IF FieldNone \in {id, name, data}
            THEN [ok |-> FALSE, text |-> <<"'NoneType' object has no attribute 'strip'">>]
            ELSE [ok |-> TRUE, artist_id |-> strip(id), artist_name |-> strip(name),
                  artist_data |-> strip(data)]
    ELSE IF Len(row) < 3
         THEN [ok |-> FALSE, text |-> <<"Expected 3 columns, got fewer">>]
         ELSE [ok |-> TRUE, artist_id |-> strip(row[1]), artist_name |-> strip(row[2]),
               artist_data |-> strip(row[3])]

ConvError(row, text) == [row |-> row, text |-> text]
NoError == ConvError(0, <<>>)

\* Mutant: the limit test is off by one.
LimitReached_OffByOne(limit, rows_processed) ==
    limit # <<>> /\ rows_processed > limit[1]

\* if limit is not None and rows_processed >= limit: break
LimitReached(limit, rows_processed) == limit # <<>> /\ rows_processed >= limit[1]

\* Mutant: the error does not say which row it is about.
Fail_NoRow(c, row, text) == [c EXCEPT !.pc = "failed", !.error = ConvError(0, text)]

\* raise ValueError(...) out of the conversion.
Fail(c, row, text) == [c EXCEPT !.pc = "failed", !.error = ConvError(row, text)]
\* Mutant: the warning is never logged.
Warning_Silent(c, row, text) == c

\* logging.warning(...) of the row's message.
Warning(c, row, text) == [c EXCEPT !.warnings = Append(@, ConvError(row, text))]

\* Mutant: a row whose write failed is logged but not counted as skipped.
WriteRow_SkipUncounted(c, x) ==
    LET read == [c EXCEPT !.stats.read = @ + 1]
        task_row == build_task_row(x.artist_id, x.artist_name, x.artist_data,
                                   c.prompt_id, c.prompt_version)
    IN IF c.fault.kind = "write" /\ c.fault.at = read.stats.read
       THEN IF c.strict
            THEN Fail(read, 0, <<"Failed to write row for artist_id">> \o x.artist_id)
            ELSE [Warning(read, 0, <<"Failed to write row for artist_id">> \o x.artist_id)
                    EXCEPT !.rows_processed = @ + 1]
       ELSE [read EXCEPT !.out = Append(@, task_row), !.stats.written = @ + 1,
                         !.rows_processed = @ + 1]

\* The consumer's part of one iteration (convert_csv_to_jsonl's loop body) on
\* the row the generator yielded, then the generator's rows_processed += 1.
WriteRow(c, x) ==
    LET read == [c EXCEPT !.stats.read = @ + 1]
        task_row == build_task_row(x.artist_id, x.artist_name, x.artist_data,
                                   c.prompt_id, c.prompt_version)
    IN IF c.fault.kind = "write" /\ c.fault.at = read.stats.read
       THEN IF c.strict
            THEN Fail(read, 0, <<"Failed to write row for artist_id">> \o x.artist_id)
            ELSE [Warning(read, 0, <<"Failed to write row for artist_id">> \o x.artist_id)
                    EXCEPT !.stats.skipped = @ + 1, !.rows_processed = @ + 1]
       ELSE [read EXCEPT !.out = Append(@, task_row), !.stats.written = @ + 1,
                         !.rows_processed = @ + 1]

\* Mutant: the row is extracted and validated before the limit is tested.
Iterate_ValidatesFirst(c) ==
    LET next == c.consumed + 1
    IN IF next > Len(c.lines)
       THEN [c EXCEPT !.pc = "done"]
       ELSE IF c.fault.kind = "decode" /\ c.fault.at = next
       THEN Fail(c, 0, <<"Input file must be UTF-8 encoded:", "input.csv">>)
       ELSE
       LET r == [c EXCEPT !.consumed = next, !.row_num = @ + 1]
           row == c.lines[next]
           x == Extract(c.has_header, c.fieldnames, row)
       IN IF ~x.ok
          THEN IF c.strict THEN Fail(r, r.row_num, x.text)
               ELSE Warning(r, r.row_num, x.text)
          ELSE IF ~validate_row(x.artist_id, x.artist_name, x.artist_data)
          THEN IF c.strict
               THEN Fail(r, r.row_num, <<"artist_id and artist_name are required">>)
               ELSE Warning(r, r.row_num, <<"artist_id and artist_name are required">>)
          ELSE IF LimitReached(c.limit, c.rows_processed)
          THEN [r EXCEPT !.pc = "done"]
          ELSE WriteRow(r, x)

\* One iteration of process_csv_rows' loop together with the consumer's handling
\* of what it yields.
Iterate(c) ==
    LET next == c.consumed + 1
    IN IF next > Len(c.lines)
       THEN [c EXCEPT !.pc = "done"]
       ELSE IF c.fault.kind = "decode" /\ c.fault.at = next
       THEN Fail(c, 0, <<"Input file must be UTF-8 encoded:", "input.csv">>)
       ELSE
       LET r == [c EXCEPT !.consumed = next, !.row_num = @ + 1]
           row == c.lines[next]
       IN IF LimitReached(c.limit, c.rows_processed)
          THEN [r EXCEPT !.pc = "done"]
          ELSE
          LET x == Extract(c.has_header, c.fieldnames, row)
          IN IF ~x.ok
             THEN IF c.strict THEN Fail(r, r.row_num, x.text)
                  ELSE Warning(r, r.row_num, x.text)
             ELSE IF ~validate_row(x.artist_id, x.artist_name, x.artist_data)
             THEN IF c.strict
                  THEN Fail(r, r.row_num, <<"artist_id and artist_name are required">>)
                  ELSE Warning(r, r.row_num, <<"artist_id and artist_name are required">>)
             ELSE WriteRow(r, x)

\* for row_data in process_csv_rows(...): until the input ends, the limit
\* breaks the loop, or an error leaves it.
RECURSIVE Loop(_)
Loop(c) == IF c.pc # "rows" THEN c ELSE Loop(Iterate(c))

StaleLine == [custom_id |-> <<"stale">>]

\* Mutant: the header must hold the three columns and no other.
HeaderAccepted_NoExtra(fieldnames) ==
    {fieldnames[i] : i \in 1..Len(fieldnames)} = expected_columns

\* expected_columns.issubset(set(reader.fieldnames or []))
HeaderAccepted(fieldnames) ==
    expected_columns \subseteq {fieldnames[i] : i \in 1..Len(fieldnames)}

\* Mutant: a missing output directory is reported as such.
OpenFailure_NamesOutput(kind) ==
    IF kind = "in_missing" THEN <<"Input file not found:", "input.csv">>
    ELSE IF kind = "out_dir_missing" THEN <<"Output directory not found:", "out.jsonl">>
    ELSE <<"Permission denied accessing files">>

\* What the except clauses make of an exception of either open(): every
\* FileNotFoundError names the input path, a PermissionError names no file.
OpenFailure(kind) ==
    IF kind \in {"in_missing", "out_dir_missing"}
    THEN <<"Input file not found:", "input.csv">>
    ELSE <<"Permission denied accessing files">>

\* Mutant: the output is opened for appending.
OpenOutput_Appends(c) == [c EXCEPT !.outExists = TRUE]

\* open(output_path, 'w', encoding='utf-8'): the file is created or emptied.
OpenOutput(c) == [c EXCEPT !.outExists = TRUE, !.out = <<>>]

\* The two open() calls and, in headered mode, the header check.
Open(lines, prior, skip_header, limit, strict, prompt_version, fault) ==
    LET c0 == [pc |-> "rows", lines |-> lines, has_header |-> ~skip_header,
               fieldnames |-> <<>>, limit |-> limit, strict |-> strict,
               prompt_id |-> "test_prompt", prompt_version |-> prompt_version,
               fault |-> fault, prior |-> prior,
               consumed |-> 0, row_num |-> 0, rows_processed |-> 0,
               stats |-> [read |-> 0, written |-> 0, skipped |-> 0],
               outExists |-> prior # "absent",
               out |-> IF prior = "stale" THEN <<StaleLine>> ELSE <<>>,
               warnings |-> <<>>, error |-> NoError]
    IN IF fault.kind \in {"in_missing", "out_dir_missing", "in_denied"}
       THEN Fail(c0, 0, OpenFailure(fault.kind))
       ELSE
       LET c1 == OpenOutput(c0)
       IN IF skip_header THEN c1
          ELSE IF fault.kind = "decode" /\ fault.at = 1 /\ lines # <<>>
          THEN Fail(c1, 0, <<"Input file must be UTF-8 encoded:", "input.csv">>)
          ELSE LET fieldnames == IF lines = <<>> THEN <<>> ELSE lines[1]
                   c2 == [c1 EXCEPT !.fieldnames = fieldnames,
                                    !.consumed = IF lines = <<>> THEN 0 ELSE 1]
               IN IF HeaderAccepted(fieldnames)
                  THEN c2
                  ELSE Fail(c2, 0, <<"CSV header must contain:", "artist_data",
                                     "artist_id", "artist_name", "Found:">>
                                   \o [i \in 1..Len(fieldnames) |->
                                         IF fieldnames[i] = <<>> THEN ""
                                         ELSE fieldnames[i][1]])

convert_csv_to_jsonl(lines, prior, skip_header, limit, strict, prompt_version, fault) ==
    Loop(Open(lines, prior, skip_header, limit, strict, prompt_version, fault))

(***************************************************************************)
(* The normalizer's state machine: one conversion is one action, from a    *)
(* shell where none is running; conv then holds its inputs and everything  *)
(* it did, until the process exits.                                        *)
(***************************************************************************)
MaxRows == 3     \* data rows of an input file
MaxLimit == 2    \* largest --limit

HeaderStd == <<ColId, ColName, ColData>>
HeaderSwapped == <<ColName, ColId, ColData>>
HeaderBad == << <<"id">>, <<"name">>, ColData >>
HeaderExtra == <<ColData, ColName, ColId, <<"genre">> >>
Headers == {HeaderStd, HeaderSwapped, HeaderBad, HeaderExtra}

\* Fields valid in either column, padded and not; a whitespace-only first
\* field; a row of two columns. (No blank lines, which DictReader drops.)
RowPadded == << <<WS, "a1", WS>>, <<"New", WS, "Jeans", WS, WS>>, <<WS, "K-pop">> >>
RowPlain == << <<"a2">>, <<"Stereolab">>, <<>> >>
RowBlankFirst == << <<WS>>, <<"Nameless">>, <<"x">> >>
RowShort == << <<"a3">>, <<"Short">> >>
DataRows == {RowPadded, RowPlain, RowBlankFirst, RowShort}

SeqsUpTo(S, k) == UNION {[1..j -> S] : j \in 0..k}

CsvFiles == {<<>>} \cup {<<h>> \o rows : h \in Headers, rows \in SeqsUpTo(DataRows, MaxRows)}

Limits == {<<>>} \cup {<<k>> : k \in 0..MaxLimit}

PromptVersions == {None, "", "v1.0"}

NoFault == [kind |-> "none", at |-> 0]

\* What can go wrong around the conversion: an input that is missing, unreadable
\* or not UTF-8 from some line on, an output directory that is missing, a write
\* that raises. The input is decoded as it is read, a buffer at a time, so the
\* read that raises UnicodeDecodeError is the one fetching line `at`, the first
\* line of the buffer holding the bad bytes: lines before it have been yielded.
Faults ==
    {NoFault}
    \cup {[kind |-> k, at |-> 0] : k \in {"in_missing", "in_denied", "out_dir_missing"}}
    \cup {[kind |-> k, at |-> i] : k \in {"decode", "write"}, i \in {1, 2}}

\* The output path before the conversion: no file, or a file of an earlier run.
Priors(fault) == IF fault.kind = "out_dir_missing" THEN {"absent"} ELSE {"absent", "stale"}

Convert ==
    /\ conv.pc = "idle"
    /\ \E lines \in CsvFiles, skip_header, strict \in BOOLEAN, limit \in Limits,
          prompt_version \in PromptVersions, fault \in Faults :
         \E prior \in Priors(fault) :
           conv' = convert_csv_to_jsonl(lines, prior, skip_header, limit, strict,
                                        prompt_version, fault)
    /\ UNCHANGED <<fs, inv>>

\* sys.exit(main())
ConvExit ==
    /\ conv.pc # "idle"
    /\ conv' = NoConv
    /\ UNCHANGED <<fs, inv>>

NextConv == Convert \/ ConvExit

SpecConv == Init /\ [][NextConv]_vars

(***************************************************************************)
(* validate_row and build_task_row called on their own, as the unit tests  *)
(* do: the arguments are any fields, trimmed or not; conv holds the call   *)
(* and then what it returned.                                              *)
(***************************************************************************)
MaxField == 2    \* tokens of an argument

FieldTokens == {WS, "a"}
Fields == SeqsUpTo(FieldTokens, MaxField)
PromptIds == {"test_prompt", "bio_gen"}

RowCalls ==
    [artist_id : Fields, artist_name : Fields, artist_data : Fields,
     prompt_id : PromptIds, prompt_version : PromptVersions]

InitRow ==
    /\ fs = [p \in Paths |-> Absent]
    /\ inv = InvInit
    /\ \E args \in RowCalls : conv = [pc |-> "call", args |-> args]

ValidateRow ==
    /\ conv.pc = "call"
    /\ conv' = [pc |-> "validated", args |-> conv.args,
                valid |-> validate_row(conv.args.artist_id, conv.args.artist_name,
                                       conv.args.artist_data)]
    /\ UNCHANGED <<fs, inv>>

BuildTaskRow ==
    /\ conv.pc = "call"
    /\ conv' = [pc |-> "built", args |-> conv.args,
                task |-> build_task_row(conv.args.artist_id, conv.args.artist_name,
                                        conv.args.artist_data, conv.args.prompt_id,
                                        conv.args.prompt_version)]
    /\ UNCHANGED <<fs, inv>>

NextRow == ValidateRow \/ BuildTaskRow

SpecRow == InitRow /\ [][NextRow]_vars

(***************************************************************************)
(* Properties of the orchestrator, checked under Spec.                     *)
(***************************************************************************)
Populated(id) == id \notin {None, ""}
Ops(i) == {i.calls[k].op : k \in 1..Len(i.calls)}
Downloaded(i) == "files.content" \in Ops(i)
Count(i, op) == Cardinality({k \in 1..Len(i.calls) : i.calls[k].op = op})
Said(i, tok) == \E k \in 1..Len(i.stderr) : Contains(i.stderr[k], tok)
SaidBoth(i, a, b) ==
    \E k \in 1..Len(i.stderr) : Contains(i.stderr[k], a) /\ Contains(i.stderr[k], b)

\* The remote call a wrapper's failure record is about.
OpOfTag(tag) ==
    CASE tag = "UPLOAD - Failed" -> "files.create"
      [] tag = "CREATE_BATCH - Failed" -> "batches.create"
      [] tag = "GET_STATUS - Failed" -> "batches.retrieve"
      [] tag = "CANCEL_BATCH - Failed" -> "batches.cancel"
      [] tag = "LIST_BATCHES - Failed" -> "batches.list"
      [] tag = "DOWNLOAD_RESULTS - Failed" -> "files.content"
      [] OTHER -> None
\* The remote calls that raised during the invocation, from the wrappers' log.
FailedOps(i) ==
    {OpOfTag(i.log[k].tag) :
        k \in {j \in 1..Len(i.log) : /\ i.log[j].level = "ERROR"
                                     /\ i.log[j].msg = RemoteError
                                     /\ OpOfTag(i.log[j].tag) # None}}
NoRetry(i) ==
    /\ \A j, k \in 1..Len(i.calls) : j # k => i.calls[j].op # i.calls[k].op
    /\ \A op \in FailedOps(i) : i.calls[Len(i.calls)].op = op

\* C1: status downloads to results_<batch id>.jsonl if and only if its status
\* check returned 'completed' with a non-empty output_file_id and auto-save is
\* on; otherwise it makes no download call and writes no file.
C1_StatusAutoSave ==
    (inv.cmd = "status" /\ inv.handler) =>
        /\ Downloaded(inv) <=>
             (inv.seen = "completed" /\ Populated(inv.seenOfid) /\ inv.args.auto_save)
        /\ inv.wrote \subseteq {ResultsPath(inv.args.batch_id)}
        /\ inv.wrote # {} => Downloaded(inv)
        /\ (Downloaded(inv) /\ FailedOps(inv) = {} /\ ~Said(inv, OpenError))
             => inv.wrote = {ResultsPath(inv.args.batch_id)}

C1_Witness ==
    /\ inv.cmd = "status" /\ inv.exit = 0
    /\ inv.wrote = {ResultsPath("batch_2")}
    /\ fs[ResultsPath("batch_2")] # Absent

\* C2: retrieve, when its status check returned anything but 'completed', exits
\* 1 with a message holding 'not completed' and that status, and has made no
\* download call and written no file.
C2_RetrieveRejectsIncomplete ==
    (inv.cmd = "retrieve" /\ inv.seen \notin {NoCheck, "completed"}) =>
        /\ inv.exit = 1
        /\ SaidBoth(inv, "not completed", inv.seen)
        /\ ~Downloaded(inv)
        /\ inv.wrote = {}

C2_Witness ==
    inv.cmd = "retrieve" /\ inv.seen = "failed" /\ inv.exit = 1

\* C3 as stated: on a completed job without output_file_id, status warns, makes
\* no download call and exits 0; retrieve makes no download call and exits 1.
C3_Original ==
    (inv.seen = "completed" /\ ~Populated(inv.seenOfid)) =>
        /\ ~Downloaded(inv)
        /\ inv.cmd = "status" => (inv.exit = 0 /\ Said(inv, "Warning:"))
        /\ inv.cmd = "retrieve" => inv.exit = 1

\* C3 as amended: status warns exactly when auto-save is enabled (with
\* auto-save disabled it prints no warning); in both cases it makes no
\* download call and exits 0; retrieve makes no download call and exits 1.
C3_Amended ==
    (inv.seen = "completed" /\ ~Populated(inv.seenOfid)) =>
        /\ ~Downloaded(inv)
        /\ inv.wrote = {}
        /\ inv.cmd = "status" =>
             (inv.exit = 0 /\ (Said(inv, "Warning:") <=> inv.args.auto_save))
        /\ inv.cmd = "retrieve" => inv.exit = 1

C3_Witness ==
    /\ inv.cmd = "status" /\ inv.seen = "completed" /\ inv.seenOfid = ""
    /\ inv.args.auto_save /\ Said(inv, "Warning:") /\ inv.exit = 0

\* C4: whatever the sequence of invocations and whatever status the job reports,
\* a download call is issued, and a results file created or modified, only by a
\* status or retrieve invocation whose own status check returned 'completed'
\* with a populated output_file_id.
C4_DownloadOnlyWhenCompleted ==
    [][(Downloaded(inv') \/ inv'.wrote # {} \/ fs' # fs) =>
           /\ inv'.cmd \in {"status", "retrieve"}
           /\ inv'.seen = "completed"
           /\ Populated(inv'.seenOfid)]_vars

C4_Witness ==
    /\ inv.cmd = "retrieve" /\ inv.seen = "completed" /\ Downloaded(inv)
    /\ inv.wrote = {<<"out.jsonl">>} /\ fs[<<"out.jsonl">>] = MaxContent

\* C5 as stated: a failure raised by the remote client is not retried and makes
\* the command exit 1.
C5_Original ==
    FailedOps(inv) # {} => (NoRetry(inv) /\ inv.exit = 1)

\* C5 as amended: a failure raised by the remote client is not retried; it makes
\* the command exit 1, except a failed download during the status command's
\* auto-save, which is reported as a warning while the command exits 0.
C5_Amended ==
    FailedOps(inv) # {} =>
        /\ NoRetry(inv)
        /\ Said(inv, RemoteError)
        /\ inv.exit = (IF inv.cmd = "status" /\ "files.content" \in FailedOps(inv)
                       THEN 0 ELSE 1)

C5_Witness ==
    /\ inv.cmd = "status" /\ FailedOps(inv) = {"files.content"}
    /\ inv.exit = 0 /\ Said(inv, "Warning:")

\* C6 as stated: every invocation of a command issues at least 1 and at most 2
\* remote calls; status and retrieve issue exactly one status check.
C6_Original ==
    inv.handler =>
        /\ Len(inv.calls) \in 1..2
        /\ inv.cmd \in {"status", "retrieve"} => Count(inv, "batches.retrieve") = 1

\* C6 as amended: every invocation of a command issues at most 2 remote calls
\* and returns; status, retrieve, cancel and list issue at least 1, and create
\* issues none when it rejects its input path or cannot open the input file;
\* status and retrieve issue exactly one status check.
C6_Amended ==
    inv.handler =>
        /\ Len(inv.calls) <= 2
        /\ inv.cmd # "create" => Len(inv.calls) >= 1
        /\ (inv.cmd = "create" /\ inv.calls = <<>>) =>
             (inv.exit = 1 /\ (\/ Said(inv, "Input file not found")
                               \/ Said(inv, "Input path is not a file")
                               \/ Said(inv, OpenError)))
        /\ inv.cmd \in {"status", "retrieve"} => Count(inv, "batches.retrieve") = 1

C6_Witness ==
    inv.cmd = "create" /\ inv.handler /\ inv.calls = <<>> /\ inv.exit = 1

\* C7: create on a path that does not exist or is not a regular file exits 1
\* with an error naming the path and issues no remote call.
C7_CreateRejectsBadInput ==
    (inv.cmd = "create" /\ inv.handler
       /\ (~PathExists(inv.args.input_file) \/ ~PathIsFile(inv.args.input_file))) =>
        /\ inv.exit = 1
        /\ SaidBoth(inv, "Error:", inv.args.input_file)
        /\ inv.calls = <<>>

C7_Witness ==
    /\ inv.cmd = "create" /\ inv.handler /\ inv.args.input_file = "logs"
    /\ inv.exit = 1 /\ inv.calls = <<>>

\* C8: without a credential (absent or empty) main exits 1 with an error naming
\* OPENAI_API_KEY, before the logger is set up, the client constructed, a
\* handler run or a remote call made.
C8_MissingKeyIsFatal ==
    (inv.cmd # "none" /\ inv.key \in {None, ""}) =>
        /\ inv.exit = 1
        /\ Said(inv, "OPENAI_API_KEY")
        /\ ~inv.logger /\ ~inv.client /\ ~inv.handler
        /\ inv.log = <<>> /\ inv.calls = <<>> /\ inv.wrote = {}

C8_Witness ==
    inv.cmd = "status" /\ inv.key = "" /\ inv.exit = 1 /\ ~inv.logger

(***************************************************************************)
(* Properties of the normalizer, checked under SpecConv. What a source row *)
(* should give is stated here from the input file alone.                   *)
(***************************************************************************)
\* A field without its leading and trailing whitespace.
Trimmed(f) ==
    LET keep == {i \in 1..Len(f) : f[i] # WS}
    IN IF keep = {} THEN <<>>
       ELSE SubSeq(f, CHOOSE i \in keep : \A j \in keep : i <= j,
                      CHOOSE i \in keep : \A j \in keep : i >= j)

ColPos(c, col) ==
    IF c.has_header
    THEN CHOOSE k \in 1..Len(c.fieldnames) : c.fieldnames[k] = col
    ELSE CASE col = ColId -> 1 [] col = ColName -> 2 [] col = ColData -> 3

HasCol(c, row, col) == ColPos(c, col) <= Len(row)
Src(c, row, col) == Trimmed(row[ColPos(c, col)])

\* A valid source row: three fields, artist_id and artist_name non-empty once trimmed.
RowOK(c, row) ==
    /\ \A col \in expected_columns : HasCol(c, row, col)
    /\ Src(c, row, ColId) # <<>>
    /\ Src(c, row, ColName) # <<>>

DataLines(c) == IF c.has_header THEN Tail(c.lines) ELSE c.lines

ValidRows(c) ==
    LET Test(row) == RowOK(c, row)
    IN SelectSeq(DataLines(c), Test)

LineOf(line, c, row) ==
    /\ line.custom_id = Src(c, row, ColId)
    /\ line.body.prompt.variables.artist_name = Src(c, row, ColName)
    /\ line.body.prompt.variables.artist_data = Src(c, row, ColData)

HeaderOK(c) ==
    c.has_header =>
        (c.lines # <<>> /\ expected_columns \subseteq {c.lines[1][i] : i \in 1..Len(c.lines[1])})

Ran(c) == c.pc \in {"done", "failed"}

\* C9: converting a headered CSV whose N rows are all valid, without a limit
\* (and with every write succeeding), returns normally having written exactly
\* N lines, the i-th holding the trimmed artist_id, artist_name and
\* artist_data of the i-th source row.
C9_RoundTrip ==
    (/\ Ran(conv) /\ conv.has_header /\ HeaderOK(conv) /\ conv.limit = <<>>
     /\ conv.fault = NoFault
     /\ \A i \in 1..Len(DataLines(conv)) : RowOK(conv, DataLines(conv)[i])) =>
        /\ conv.pc = "done"
        /\ Len(conv.out) = Len(DataLines(conv))
        /\ \A i \in 1..Len(conv.out) : LineOf(conv.out[i], conv, DataLines(conv)[i])

C9_Witness ==
    /\ conv.pc = "done" /\ conv.has_header /\ conv.limit = <<>> /\ conv.fault = NoFault
    /\ conv.lines = <<HeaderSwapped, RowPlain, RowPadded>>
    /\ Len(conv.out) = 2
    /\ conv.out[2].custom_id = <<"New", WS, "Jeans">>

\* C10: a conversion with limit k that returns normally (every write
\* succeeding) has written exactly k lines, those of the first k valid rows,
\* with stats.written = k, when k is smaller than the number N of valid rows,
\* and N lines when k >= N; in non-strict mode it always returns normally.
C10_Limit ==
    (/\ Ran(conv) /\ HeaderOK(conv) /\ conv.limit # <<>> /\ conv.fault = NoFault) =>
        LET k == conv.limit[1]
            valid == ValidRows(conv)
            written == IF k < Len(valid) THEN k ELSE Len(valid)
        IN /\ ~conv.strict => conv.pc = "done"
           /\ conv.pc = "done" =>
                /\ Len(conv.out) = written
                /\ conv.stats.written = written
                /\ \A i \in 1..written : LineOf(conv.out[i], conv, valid[i])

C10_Witness ==
    /\ conv.pc = "done" /\ conv.limit = <<1>> /\ conv.fault = NoFault
    /\ conv.lines = <<HeaderStd, RowBlankFirst, RowPadded, RowPlain>>
    /\ conv.has_header /\ ~conv.strict
    /\ Len(conv.out) = 1 /\ conv.stats.written = 1
    /\ conv.out[1].custom_id = <<"a1">>

\* C11: a non-strict conversion without a limit, every write succeeding, of an
\* input with M invalid and N valid rows returns normally with stats.read = N,
\* stats.written = N, stats.skipped = 0, N lines written and exactly M
\* warnings, one for each invalid row in order, naming its row number.
InvalidRowNumbers(c) ==
    LET Bad(i) == ~RowOK(c, DataLines(c)[i])
        Up(n) == [i \in 1..n |-> i]
    IN SelectSeq(Up(Len(DataLines(c))), Bad)

C11_NonStrictCounts ==
    (/\ Ran(conv) /\ HeaderOK(conv) /\ ~conv.strict /\ conv.limit = <<>>
     /\ conv.fault = NoFault) =>
        LET N == Len(ValidRows(conv))
            bad == InvalidRowNumbers(conv)
        IN /\ conv.pc = "done"
           /\ conv.stats = [read |-> N, written |-> N, skipped |-> 0]
           /\ Len(conv.out) = N
           /\ Len(conv.warnings) = Len(bad)
           /\ \A i \in 1..Len(bad) : conv.warnings[i].row = bad[i]

C11_Witness ==
    /\ conv.pc = "done" /\ ~conv.strict /\ conv.limit = <<>> /\ conv.fault = NoFault
    /\ conv.has_header
    /\ conv.lines = <<HeaderStd, RowBlankFirst, RowPadded, RowShort>>
    /\ conv.stats = [read |-> 1, written |-> 1, skipped |-> 0]
    /\ Len(conv.out) = 1 /\ Len(conv.warnings) = 2
    /\ conv.warnings[2].row = 3

\* C12: a strict conversion without a limit (every read and write succeeding)
\* of an input with an invalid row aborts with an error naming the 1-based
\* number of the first invalid row, and the output file then holds exactly the
\* lines of the valid rows before it, in order.
C12_StrictAborts ==
    (/\ Ran(conv) /\ HeaderOK(conv) /\ conv.strict /\ conv.limit = <<>>
     /\ conv.fault = NoFault /\ InvalidRowNumbers(conv) # <<>>) =>
        LET first == InvalidRowNumbers(conv)[1]
        IN /\ conv.pc = "failed"
           /\ conv.error.row = first
           /\ Len(conv.out) = first - 1
           /\ \A i \in 1..Len(conv.out) : LineOf(conv.out[i], conv, DataLines(conv)[i])

C12_Witness ==
    /\ conv.pc = "failed" /\ conv.strict /\ conv.limit = <<>> /\ conv.fault = NoFault
    /\ ~conv.has_header
    /\ conv.lines = <<HeaderBad, RowPadded, RowShort>>
    /\ conv.error.row = 3
    /\ Len(conv.out) = 2 /\ conv.out[1].custom_id = <<"id">>
    /\ conv.out[2].custom_id = <<"a1">>

\* C13: a conversion (here without a limit) whose input file is missing,
\* cannot be opened for permission reasons, or is not valid UTF-8 at a line the
\* run reads, fails, and at the time of the failure it has written no task
\* line to the output file.
InputUnusable(c) ==
    \/ c.fault.kind \in {"in_missing", "in_denied"}
    \/ c.fault.kind = "decode" /\ c.fault.at <= Len(c.lines)

C13_InputFailureWritesNothing ==
    (Ran(conv) /\ conv.limit = <<>> /\ InputUnusable(conv)) =>
        /\ conv.pc = "failed"
        /\ conv.stats.written = 0
        /\ \A i \in 1..Len(conv.out) : conv.out[i] = StaleLine

\* C14: on every normal return of a conversion, stats.read = stats.written +
\* stats.skipped, stats.written is the number of lines in the output file, and
\* stats.skipped is the number of rows whose write failed (non-strict mode
\* only), however many rows failed validation.
WriteFailures(c) ==
    IF c.fault.kind = "write" /\ c.fault.at <= c.stats.read THEN 1 ELSE 0

C14_StatsBalance ==
    conv.pc = "done" =>
        /\ conv.stats.read = conv.stats.written + conv.stats.skipped
        /\ conv.stats.written = Len(conv.out)
        /\ conv.stats.skipped = WriteFailures(conv)
        /\ conv.stats.skipped > 0 => ~conv.strict

C14_Witness ==
    /\ conv.pc = "done" /\ ~conv.strict /\ conv.has_header /\ conv.limit = <<>>
    /\ conv.lines = <<HeaderStd, RowShort, RowPlain, RowPadded>>
    /\ conv.fault = [kind |-> "write", at |-> 2]
    /\ conv.stats = [read |-> 2, written |-> 1, skipped |-> 1]
    /\ Len(conv.out) = 1 /\ Len(conv.warnings) = 2

(***************************************************************************)
(* Properties of the row functions, checked under SpecRow.                 *)
(***************************************************************************)
\* C15: validate_row(id, name, data) is false exactly when id or name is empty
\* once its surrounding whitespace is removed, whatever data is.
C15_ValidateRow ==
    conv.pc = "validated" =>
        (conv.valid = FALSE <=>
            (Trimmed(conv.args.artist_id) = <<>> \/ Trimmed(conv.args.artist_name) = <<>>))

C15_Witness ==
    /\ conv.pc = "validated"
    /\ conv.args.artist_id = <<"a", WS>> /\ conv.args.artist_name = <<WS, WS>>
    /\ conv.args.artist_data = <<"a">>
    /\ conv.valid = FALSE

\* C16: the row build_task_row returns carries body.prompt.version, equal to
\* the supplied version, exactly when that version is a non-empty string; for
\* an empty or absent version the key is absent (never null), and every other
\* field is what it is without a version.
C16_OptionalVersion ==
    conv.pc = "built" =>
        LET a == conv.args
            prompt == conv.task.body.prompt
        IN /\ "version" \in DOMAIN prompt <=> Populated(a.prompt_version)
           /\ "version" \in DOMAIN prompt => prompt.version = a.prompt_version
           /\ DOMAIN prompt \subseteq {"id", "variables", "version"}
           /\ prompt.id = a.prompt_id
           /\ prompt.variables = [artist_name |-> a.artist_name,
                                  artist_data |-> a.artist_data]
           /\ DOMAIN conv.task = {"custom_id", "method", "url", "body"}
           /\ conv.task.custom_id = a.artist_id
           /\ conv.task.method = "POST"
           /\ DOMAIN conv.task.body = {"prompt"}

C16_Witness ==
    /\ conv.pc = "built" /\ conv.args.prompt_version = ""
    /\ conv.args.artist_id = <<"a">>
    /\ DOMAIN conv.task.body.prompt = {"id", "variables"}

(***************************************************************************)
(* Further properties of the normalizer, checked under SpecConv.           *)
(***************************************************************************)
\* C17: every line a conversion has written, in headered or positional mode,
\* strict or not, whether it returned or failed, has a custom_id and an
\* artist_name that are non-empty and neither start nor end with whitespace;
\* artist_data may be empty.
Bare(f) == f # <<>> /\ f[1] # WS /\ f[Len(f)] # WS

C17_WrittenFieldsTrimmed ==
    Ran(conv) =>
        \A i \in 1..Len(conv.out) :
            conv.out[i] # StaleLine =>
                /\ Bare(conv.out[i].custom_id)
                /\ Bare(conv.out[i].body.prompt.variables.artist_name)

C17_Witness ==
    /\ conv.pc = "failed" /\ conv.strict /\ ~conv.has_header
    /\ conv.lines = <<HeaderStd, RowPadded, RowPlain, RowShort>>
    /\ Len(conv.out) = 3
    /\ conv.out[2].custom_id = <<"a1">>
    /\ conv.out[2].body.prompt.variables.artist_name = <<"New", WS, "Jeans">>
    /\ conv.out[3].body.prompt.variables.artist_data = <<>>

\* C18: in headered mode a header is accepted exactly when its columns include
\* artist_id, artist_name and artist_data, in any order and with any other
\* columns; otherwise the conversion fails, strict or not, with an error that
\* names the required columns and the columns found, and no row is yielded:
\* nothing is read, written, skipped or warned about.
HeaderRead(c) ==
    /\ c.has_header
    /\ c.fault.kind \notin {"in_missing", "in_denied", "out_dir_missing"}
    /\ ~(c.fault.kind = "decode" /\ c.fault.at = 1 /\ c.lines # <<>>)

HeaderNames(c) ==
    IF c.lines = <<>> THEN <<>>
    ELSE [i \in 1..Len(c.lines[1]) |->
            IF c.lines[1][i] = <<>> THEN "" ELSE c.lines[1][i][1]]

HeaderRejected(c) ==
    /\ c.pc = "failed"
    /\ c.error.text # <<>>
    /\ c.error.text[1] = "CSV header must contain:"

C18_HeaderSuperset ==
    (Ran(conv) /\ HeaderRead(conv)) =>
        /\ HeaderRejected(conv) <=> ~HeaderOK(conv)
        /\ HeaderRejected(conv) =>
             /\ conv.error.text =
                    <<"CSV header must contain:", "artist_data", "artist_id",
                      "artist_name", "Found:">> \o HeaderNames(conv)
             /\ conv.stats = [read |-> 0, written |-> 0, skipped |-> 0]
             /\ conv.out = <<>> /\ conv.warnings = <<>>

C18_Witness ==
    /\ conv.pc = "done" /\ conv.has_header /\ conv.fault = NoFault /\ conv.limit = <<>>
    /\ conv.lines = <<HeaderExtra, RowPadded>>
    /\ Len(conv.out) = 1 /\ conv.out[1].custom_id = <<"K-pop">>

\* C19: in positional mode (no limit, every read and write succeeding) every
\* row, the first included, is data read as (artist_id, artist_name,
\* artist_data); a row of fewer than 3 columns is an error: in strict mode the
\* conversion aborts at it, in non-strict mode it is warned about and left
\* out, counting toward no statistic.
ShortRows(c) == {i \in 1..Len(c.lines) : Len(c.lines[i]) < 3}
ColumnsError == <<"Expected 3 columns, got fewer">>

ConfiguredPaths == {None, "/v1/chat/completions"}
TargetPath(configured) == IF configured = None THEN "/v1/responses" ELSE configured

ReadOps == {"batches.retrieve", "batches.list", "files.content"}
Logged(i, rec) == \E k \in 1..Len(i.log) : i.log[k] = rec
OverwriteWarning == Warn("DOWNLOAD_RESULTS - Overwriting existing file")

\* C21: status and list only read the remote: every call either issues is a
\* retrieval, a listing or a content download, however often they are run; list
\* touches no file; a status run that saves results leaves its results file
\* holding exactly the bytes it just downloaded, replacing what an earlier run
\* left there and touching no other file; and a status run that gets to the
\* download logs the overwrite warning exactly when the path already existed.
C21_RepeatableReads ==
    [][/\ inv'.cmd \in {"status", "list"} => Ops(inv') \subseteq ReadOps
       /\ inv'.cmd = "list" => fs' = fs /\ inv'.wrote = {}
       /\ inv'.cmd = "status" =>
            LET path == ResultsPath(inv'.args.batch_id)
            IN /\ inv'.wrote \subseteq {path}
               /\ \A p \in Paths \ inv'.wrote : fs'[p] = fs[p]
               /\ inv'.wrote = {path} =>
                    (inv'.served \in Contents /\ fs'[path] = inv'.served)
               /\ Downloaded(inv') =>
                    (Logged(inv', OverwriteWarning) <=> fs[path] # Absent)
               /\ ~Downloaded(inv') => ~Logged(inv', OverwriteWarning)]_vars

\* A second status run on the job has replaced the first run's results.
C21_Witness ==
    /\ inv.cmd = "status" /\ inv.seen = "completed" /\ inv.args.batch_id = "batch_1"
    /\ inv.wrote = {ResultsPath("batch_1")}
    /\ Logged(inv, OverwriteWarning)
    /\ inv.served = 2 /\ fs[ResultsPath("batch_1")] = 2
    /\ fs[ResultsPath("batch_2")] = 1

Printed(i, tok) == \E k \in 1..Len(i.stdout) : Contains(i.stdout[k], tok)
WindowNote == "This may take up to 10 minutes."
BillingNote == "you will be charged for them"
StatusesShown == Statuses \cup {"unknown"}

\* C22: a cancel command whose handler runs issues exactly one remote call, the
\* cancel of the given job; when that call returns, whatever status the
\* returned record shows, the exit code is 0, the status is printed, and the
\* note about the time window is printed exactly for 'cancelling', the note
\* about billing exactly for 'cancelled', and no note for any other status.
C22_CancelNotes ==
    (inv.cmd = "cancel" /\ inv.handler) =>
        /\ inv.calls = <<Call("batches.cancel", <<inv.args.batch_id>>)>>
        /\ FailedOps(inv) = {} =>
             /\ inv.exit = 0
             /\ Len(inv.stdout) >= 2
             /\ \E status \in StatusesShown :
                  /\ inv.stdout[2] = <<"Status:", status>>
                  /\ Printed(inv, WindowNote) <=> status = "cancelling"
                  /\ Printed(inv, BillingNote) <=> status = "cancelled"
                  /\ Len(inv.stdout) = IF status \in {"cancelling", "cancelled"} THEN 3 ELSE 2

C22_Witness ==
    /\ inv.cmd = "cancel" /\ inv.exit = 0 /\ inv.args.batch_id = "batch_2"
    /\ inv.stdout[2] = <<"Status:", "cancelling">>
    /\ Printed(inv, WindowNote) /\ ~Printed(inv, BillingNote)

ListPrinted(jobs) ==
    IF jobs = <<>> THEN << <<"No batch jobs found.">> >>
    ELSE << <<"Found", "batch job(s):">> >>
         \o [k \in 1..Len(jobs) |->
               <<"Batch ID:", jobs[k].id, "Status:",
                 IF jobs[k].status = NoStatus THEN "unknown" ELSE jobs[k].status>>]

\* C23: a list command whose handler runs issues one remote call, a listing
\* that is given the limit when --limit was given and no limit when it was
\* not; when the call returns, the exit code is 0 and what is printed is the
\* 'no jobs' message for an empty listing, else the jobs in the remote's order.
C23_ListCall ==
    (inv.cmd = "list" /\ inv.handler) =>
        /\ inv.calls = <<Call("batches.list", inv.args.limit)>>
        /\ FailedOps(inv) = {} =>
             /\ inv.exit = 0
             /\ \E jobs \in Listings : inv.stdout = ListPrinted(jobs)

(***************************************************************************)
(* Properties of the normalizer's limit and file handling, under SpecConv. *)
(***************************************************************************)
\* The position, among the lines of the input, of the k-th valid row (0 when
\* the input has fewer than k valid rows).
ValidUpTo(c, n) == Cardinality({i \in 1..n : RowOK(c, DataLines(c)[i])})
KthValidLine(c, k) ==
    LET at == {n \in 1..Len(DataLines(c)) : ValidUpTo(c, n) = k}
    IN IF at = {} THEN 0
       ELSE (CHOOSE n \in at : \A m \in at : n <= m) + (Len(c.lines) - Len(DataLines(c)))

\* C24: with a positive limit k, once k valid rows have been yielded no line
\* after the k-th valid row is read from the input: the reader has consumed
\* the lines up to that row and none beyond.
C24_StopsAtLimit ==
    (/\ Ran(conv) /\ HeaderOK(conv) /\ conv.limit # <<>> /\ conv.limit # <<0>>
     /\ KthValidLine(conv, conv.limit[1]) > 0) =>
        conv.consumed <= KthValidLine(conv, conv.limit[1])

(***************************************************************************)
(* Properties of the orchestrator's calls and errors, checked under Spec.  *)
(***************************************************************************)
\* The file ids the invocation's uploads returned, from the upload's own log.
UploadedIds(i) ==
    {i.log[k].msg : k \in {j \in 1..Len(i.log) : i.log[j].tag = "UPLOAD - Success"}}

\* C25: in a create command the create-job call, if issued, is the second
\* remote call, right after the one upload, and is given exactly the file id
\* that upload returned; if the upload fails, no create-job call is issued and
\* the exit code is 1.
C25_UploadThenCreate ==
    inv.cmd = "create" =>
        /\ \A k \in 1..Len(inv.calls) :
              inv.calls[k].op = "batches.create" =>
                 /\ k = 2 /\ Len(inv.calls) = 2
                 /\ inv.calls[1] = Call("files.create", <<inv.args.input_file>>)
                 /\ UploadedIds(inv) = {inv.calls[k].arg[1]}
        /\ Len(inv.calls) <= 2
        /\ UploadedIds(inv) = {} => (Count(inv, "batches.create") = 0 /\ inv.exit = 1)
        /\ inv.exit = 0 => Count(inv, "batches.create") = 1

C25_Witness ==
    /\ inv.cmd = "create" /\ inv.exit = 1
    /\ Len(inv.calls) = 2 /\ inv.calls[2].op = "batches.create"
    /\ inv.calls[2].arg[1] = "file-in2"
    /\ FailedOps(inv) = {"batches.create"}

\* The wrappers' failure records and the handlers', by tag.
WrapperFailed(rec) == rec.level = "ERROR" /\ OpOfTag(rec.tag) # None
HandlerTags ==
    {"Create command failed", "Status command failed", "Retrieve command failed",
     "Cancel command failed", "List command failed", "Auto-save failed"}
HandlerFailed(rec) == rec.level = "ERROR" /\ rec.tag \in HandlerTags
\* The wrapper a command's k-th remote call is made by fails under this tag.
TagOfOp(op) ==
    CASE op = "files.create" -> "UPLOAD - Failed"
      [] op = "batches.create" -> "CREATE_BATCH - Failed"
      [] op = "batches.retrieve" -> "GET_STATUS - Failed"
      [] op = "batches.cancel" -> "CANCEL_BATCH - Failed"
      [] op = "batches.list" -> "LIST_BATCHES - Failed"
      [] op = "files.content" -> "DOWNLOAD_RESULTS - Failed"

\* C26: a wrapper that fails logs one error under its own operation's tag and
\* passes the exception on unchanged: the record is followed at once by the
\* command handler's record of the same exception, the handler writes it to
\* stderr, and it is the handler that settles the exit code (1, or 0 for a
\* failed auto-save). Conversely every failure a handler reports was logged
\* first by the wrapper whose call or file access raised it.
C26_WrappersLogAndReraise ==
    inv.handler =>
        \A k \in 1..Len(inv.log) :
            /\ WrapperFailed(inv.log[k]) =>
                 /\ k < Len(inv.log)
                 /\ HandlerFailed(inv.log[k + 1])
                 /\ inv.log[k + 1].msg = inv.log[k].msg
                 /\ Said(inv, inv.log[k].msg)
                 /\ inv.exit = (IF inv.log[k + 1].tag = "Auto-save failed" THEN 0 ELSE 1)
            /\ HandlerFailed(inv.log[k]) =>
                 /\ k > 1
                 /\ WrapperFailed(inv.log[k - 1])
                 /\ inv.log[k - 1].msg = inv.log[k].msg
                 /\ inv.log[k].msg = RemoteError =>
                      inv.log[k - 1].tag = TagOfOp(inv.calls[Len(inv.calls)].op)
                 /\ inv.log[k].msg = OpenError =>
                      inv.log[k - 1].tag = (IF inv.cmd = "create" THEN "UPLOAD - Failed"
                                            ELSE "DOWNLOAD_RESULTS - Failed")
                 /\ \A j \in 1..Len(inv.log) : HandlerFailed(inv.log[j]) => j = k

C26_Witness ==
    /\ inv.cmd = "list" /\ inv.exit = 1
    /\ inv.calls = <<Call("batches.list", <<2>>)>>
    /\ Logged(inv, Error("LIST_BATCHES - Failed", RemoteError))
    /\ Logged(inv, Error("List command failed", RemoteError))
    /\ inv.stderr = << <<"Error:", RemoteError>> >>

\* C27: the content is fetched before the destination is opened: when the
\* remote download call of a status or retrieve command fails, every file is
\* left exactly as it was, a results file that existed keeps its content and
\* none is created.
C27_FailedDownloadKeepsFile ==
    [][(inv'.cmd \in {"status", "retrieve"} /\ "files.content" \in FailedOps(inv')) =>
          (fs' = fs /\ inv'.wrote = {})]_vars

C27_Witness ==
    /\ inv.cmd = "retrieve" /\ inv.args.out = "out.jsonl"
    /\ FailedOps(inv) = {"files.content"} /\ inv.exit = 1
    /\ Logged(inv, OverwriteWarning)
    /\ fs[<<"out.jsonl">>] = 2 /\ inv.wrote = {}

(***************************************************************************)
(* Properties of the normalizer's files, checked under SpecConv.           *)
(***************************************************************************)
OutputUntouched(c) ==
    /\ c.outExists = (c.prior # "absent")
    /\ c.out = IF c.prior = "stale" THEN <<StaleLine>> ELSE <<>>

\* C28: the output file is opened and emptied before the header is checked or
\* a row is read: after a conversion that fails on its header the output file
\* exists and is empty whatever it held before, while a conversion that fails
\* because the input cannot be opened leaves the output path as it was,
\* neither created nor emptied.
C28_OutputOpenedBeforeHeader ==
    Ran(conv) =>
        /\ HeaderRejected(conv) => (conv.outExists /\ conv.out = <<>>)
        /\ conv.fault.kind \in {"in_missing", "in_denied"} =>
              (conv.pc = "failed" /\ OutputUntouched(conv))

C28_Witness ==
    /\ HeaderRejected(conv) /\ conv.prior = "stale"
    /\ conv.lines = <<HeaderBad, RowPlain>>
    /\ conv.outExists /\ conv.out = <<>>

\* The number, among the data rows, of the k-th valid one: 0 for k = 0, and
\* one more than the number of data rows when fewer than k rows are valid.
KthValidRow(c, k) ==
    LET at == {n \in 0..Len(DataLines(c)) : ValidUpTo(c, n) = k}
    IN IF at = {} THEN Len(DataLines(c)) + 1
       ELSE CHOOSE n \in at : \A m \in at : n <= m

\* C29: a strict conversion with limit k (every read and write succeeding)
\* aborts exactly when an invalid row comes before the k-th valid row, and then
\* at the first such row; invalid rows after the k-th valid row are not
\* validated, and the conversion returns normally, without error or warning,
\* having written k lines.
C29_StrictWithLimit ==
    (/\ Ran(conv) /\ HeaderOK(conv) /\ conv.strict /\ conv.limit # <<>>
     /\ conv.fault = NoFault) =>
        LET k == conv.limit[1]
            kth == KthValidRow(conv, k)
            bad == InvalidRowNumbers(conv)
            early == \E i \in 1..Len(bad) : bad[i] < kth
        IN /\ conv.pc = "failed" <=> early
           /\ early => (conv.error.row = bad[1] /\ Len(conv.out) = bad[1] - 1)
           /\ ~early =>
                /\ conv.error = NoError /\ conv.warnings = <<>>
                /\ Len(conv.out) = (IF kth <= Len(DataLines(conv)) THEN k
                                    ELSE Len(DataLines(conv)))

C29_Witness ==
    /\ conv.pc = "done" /\ conv.strict /\ conv.limit = <<1>> /\ conv.fault = NoFault
    /\ conv.has_header
    /\ conv.lines = <<HeaderStd, RowPlain, RowShort, RowBlankFirst>>
    /\ Len(conv.out) = 1 /\ conv.consumed = 3 /\ conv.error = NoError

\* C30: a file-not-found condition of either open() is reported as 'Input file
\* not found: <input path>': when the input exists but the directory of the
\* output path does not, the conversion fails with that message about the
\* input file, and no output is written or created.
C30_NotFoundNamesInput ==
    (Ran(conv) /\ conv.fault.kind \in {"in_missing", "out_dir_missing"}) =>
        /\ conv.pc = "failed"
        /\ conv.error.text = <<"Input file not found:", "input.csv">>
        /\ conv.stats = [read |-> 0, written |-> 0, skipped |-> 0]
        /\ OutputUntouched(conv)
        /\ conv.fault.kind = "out_dir_missing" => (~conv.outExists /\ conv.out = <<>>)

C30_Witness ==
    /\ conv.pc = "failed" /\ conv.fault.kind = "out_dir_missing"
    /\ conv.lines = <<HeaderStd, RowPlain>> /\ conv.has_header
    /\ conv.error.text = <<"Input file not found:", "input.csv">>
    /\ ~conv.outExists

====
